---- MODULE Spec2Model ----
(***************************************************************************)
(* A model of the query/result synchronisation engine of nyaa:             *)
(*   src/src/sync.rs                   AppSync::load_results,              *)
(*                                     AppSync::read_event_loop            *)
(*   src/src/source/torrent_galaxy.rs  TorrentGalaxyHtmlSource::search     *)
(*   src/src/widget/sort.rs            SortPopup                           *)
(* Strings are sequences of one-character strings, so that split_once,     *)
(* get(0..2), to_lowercase and the digit filter are computed as the code   *)
(* computes them.  Unsigned integers are little-endian sequences of 16-bit *)
(* limbs (u32: 2 limbs, usize: 4 limbs), so that parse::<u32>() and        *)
(* parse::<usize>() overflow exactly where the code's do.                  *)
(***************************************************************************)
EXTENDS Integers, Sequences, FiniteSets, TLC

VARIABLES
    build,          \* "debug" | "release": decides what integer overflow does
    ctx,            \* Context: [page, last_page, total_results]
    widgets,        \* Widgets: [sort], the selected sort
    ncalls,         \* number of direct adapter calls made (SpecSearch)
    call,           \* the last direct adapter call: its input and its outcome
    running,        \* the Main Loop runs and holds both receivers
    mode,           \* Main Loop state: "Idle" | "Loading" | "Error"
    current_generation, \* generation of the last dispatched query
    results,        \* the last accepted Results (the table on screen)
    error,          \* the last recorded error
    tasks,          \* the spawned load_results tasks, in dispatch order
    res_chan,       \* the result channel: messages sent and not yet received
    evt_chan,       \* the event channel: events sent and not yet received
    reader,         \* read_event_loop: [pc, evt, reads]
    read_log,       \* the events event::read() returned Ok, in order
    send_log,       \* the events handed to tx_evt.send, in order, and how it ended
    taken,          \* number of events the Main Loop has received
    sort_popup,     \* SortPopup: [table: [items, selected], selected]
    app_mode,       \* app.mode as the popup's handler sees it: "Sort" | "Normal" | "Loading"
    handled         \* the last event SortPopup::handle_event took, and the state it found

(***************************************************************************)
(* Bounds of the model.                                                    *)
(***************************************************************************)
MaxRows == 2        \* item rows in a response document
MaxCalls == 2       \* direct adapter calls in one behaviour of SpecSearch
MaxReads == 2       \* calls of event::read() in one behaviour of Spec
ChanCap == 1        \* capacity of the event channel and of the result channel
MaxPage == 2        \* small pages a query of SpecSearch holds

(***************************************************************************)
(* Characters and strings.                                                 *)
(***************************************************************************)
\* what a selector finds in an element: the text of its first match, or nothing
Some(s) == [some |-> TRUE, text |-> s]

None == [some |-> FALSE, text |-> <<>>]

Digits == <<"0", "1", "2", "3", "4", "5", "6", "7", "8", "9">>

\* char::is_ascii_digit
is_ascii_digit(c) == \E i \in 1..10 : Digits[i] = c

DigitVal(c) == (CHOOSE i \in 1..10 : Digits[i] = c) - 1

\* .chars().filter(char::is_ascii_digit).collect::<String>()
FilterDigits(s) == SelectSeq(s, is_ascii_digit)

\* char::to_lowercase on the letters a size unit is written with
LowerOf(c) ==
    CASE c = "B" -> "b"
      [] c = "K" -> "k"
      [] c = "M" -> "m"
      [] c = "G" -> "g"
      [] c = "T" -> "t"
      [] OTHER -> c

\* str::to_lowercase
to_lowercase(s) == [i \in 1..Len(s) |-> LowerOf(s[i])]

\* the index of the first occurrence of c in s, 0 when there is none
IndexOf(s, c) ==
    IF \E i \in 1..Len(s) : s[i] = c
    THEN CHOOSE i \in 1..Len(s) : s[i] = c /\ \A j \in 1..(i - 1) : s[j] # c
    ELSE 0

\* str::split_once(c): None, or Some((before, after)) of the first c
split_once(s, c) ==
    LET i == IndexOf(s, c)
    IN  IF i = 0
        THEN [some |-> FALSE, l |-> <<>>, r |-> <<>>]
        ELSE [some |-> TRUE, l |-> SubSeq(s, 1, i - 1), r |-> SubSeq(s, i + 1, Len(s))]

(***************************************************************************)
(* Unsigned integers of a fixed width, as 16-bit limbs, least limb first.  *)
(***************************************************************************)
Base == 256 * 256

\* limbs of a u32 (parse::<u32>) and of a usize (parse::<usize>, 64-bit target)
U32Limbs == 2
UsizeLimbs == 4

\* the small number n (0 <= n < Base * Base / 2) in w limbs
UInt(n, w) == [i \in 1..w |-> IF i = 1 THEN n % Base ELSE IF i = 2 THEN n \div Base ELSE 0]

Zero(w) == UInt(0, w)

\* n * m + a from limb i on: the limbs of the result and the carry out of the
\* top limb (a carry other than 0 is an overflow of the width)
RECURSIVE MulAddFrom(_, _, _, _)
MulAddFrom(n, i, m, a) ==
    IF i > Len(n)
    THEN [num |-> <<>>, carry |-> a]
    ELSE LET v == n[i] * m + a
             rest == MulAddFrom(n, i + 1, m, v \div Base)
         IN  [num |-> <<v % Base>> \o rest.num, carry |-> rest.carry]

\* n / d for a small divisor d, limbs 1..i of the quotient
RECURSIVE DivFrom(_, _, _, _)
DivFrom(n, i, d, rem) ==
    IF i < 1
    THEN <<>>
    ELSE LET v == rem * Base + n[i]
         IN  DivFrom(n, i - 1, d, v % d) \o <<v \div d>>

\* str::parse::<uN>() of the digits from position i on, acc so far:
\* checked_mul(10) then checked_add(digit), an overflow is an Err
RECURSIVE ParseFrom(_, _, _)
ParseFrom(s, i, acc) ==
    IF i > Len(s)
    THEN [ok |-> TRUE, val |-> acc]
    ELSE IF ~is_ascii_digit(s[i])
    THEN [ok |-> FALSE, val |-> acc]
    ELSE LET r == MulAddFrom(acc, 1, 10, DigitVal(s[i]))
         IN  IF r.carry # 0
             THEN [ok |-> FALSE, val |-> acc]
             ELSE ParseFrom(s, i + 1, r.num)

\* the digits of s folded with wrapping arithmetic, the carry dropped
RECURSIVE WrapFrom(_, _, _)
WrapFrom(s, i, acc) ==
    IF i > Len(s)
    THEN [ok |-> TRUE, val |-> acc]
    ELSE WrapFrom(s, i + 1, MulAddFrom(acc, 1, 10, DigitVal(s[i])).num)

\* parse_uint with wrapping_mul and wrapping_add for the checked ones
parse_uint_wrapping(s, w) ==
    IF Len(s) = 0
    THEN [ok |-> FALSE, val |-> Zero(w)]
    ELSE WrapFrom(s, 1, Zero(w))

\* str::parse::<uN>() for an unsigned type of w limbs: Err on the empty
\* string, on a character that is no digit and on overflow
parse_uint(s, w) ==
    IF Len(s) = 0
    THEN [ok |-> FALSE, val |-> Zero(w)]
    ELSE ParseFrom(s, 1, Zero(w))

\* Result::unwrap_or_default() on a parsed unsigned integer
unwrap_or_default(r, w) == IF r.ok THEN r.val ELSE Zero(w)

(***************************************************************************)
(* The adapter: TorrentGalaxyHtmlSource.                                   *)
(***************************************************************************)
Builds == {"debug", "release"}

\* bytes of a character in UTF-8 (str::get takes a byte range)
ByteLen(c) == IF c = "e'" THEN 2 ELSE 1

\* the byte length of the first k characters of s
RECURSIVE BytesOf(_, _)
BytesOf(s, k) == IF k = 0 THEN 0 ELSE BytesOf(s, k - 1) + ByteLen(s[k])

\* y.get(0..2).unwrap_or("00"): the first two bytes when y has them and byte 2
\* is a character boundary
get_0_2(y) ==
    IF \E k \in 0..Len(y) : BytesOf(y, k) = 2
    THEN SubSeq(y, 1, CHOOSE k \in 0..Len(y) : BytesOf(y, k) = 2)
    ELSE <<"0", "0">>

\* "find next unit up"
next_unit(unit) ==
    CASE unit = <<"b">> -> <<"k", "B">>
      [] unit = <<"k", "b">> -> <<"M", "B">>
      [] unit = <<"m", "b">> -> <<"G", "B">>
      [] unit = <<"g", "b">> -> <<"T", "B">>
      [] OTHER -> <<"?", "?">>

\* normalize_size matching the unit as written, without to_lowercase
normalize_size_case_sensitive(size) ==
    LET a == split_once(size, ",")
        b == split_once(a.r, " ")
    IN  IF a.some /\ b.some
        THEN a.l \o <<".">> \o get_0_2(b.l) \o <<" ">> \o next_unit(b.r)
        ELSE size

\* "Convert numbers like 1,015 KB => 1.01 MB"
normalize_size(size) ==
    LET a == split_once(size, ",")
        b == split_once(a.r, " ")
    IN  IF a.some /\ b.some
        THEN a.l \o <<".">> \o get_0_2(b.l) \o <<" ">> \o next_unit(to_lowercase(b.r))
        ELSE size

\* util::html::inner(e, selector, default): the inner HTML of the first match,
\* the default when the selector matches nothing
inner(field, default) == IF field.some THEN field.text ELSE default

\* the seeders, leechers and views fields of a row
parse_count(field) ==
    unwrap_or_default(parse_uint(FilterDigits(inner(field, <<"0">>)), U32Limbs), U32Limbs)

\* the Item built from the i-th row (enumerate() counts from 0)
parse_item(i, e) ==
    [id |-> i - 1,
     seeders |-> parse_count(e.seed),
     leechers |-> parse_count(e.leech),
     downloads |-> parse_count(e.views),
     size |-> normalize_size(inner(e.size, <<"0", " ", "M", "B">>))]

\* doc.select(item_sel).enumerate().map(..).collect::<Vec<Item>>()
parse_items(doc) == [i \in 1..Len(doc.rows) |-> parse_item(i, doc.rows[i])]

\* the rows of the ResultTable, one per item in the items' order
format_table(items) ==
    [i \in 1..Len(items) |->
        <<items[i].size, items[i].seeders, items[i].leechers, items[i].downloads>>]

DefaultLastPage == 50
DefaultTotalResults == 2500
PerPage == 50

\* ctx.last_page and ctx.total_results after the pagination block; panic is
\* the overflow of num_results + 49 in a build that checks arithmetic
pagination(doc, items, bld) ==
    LET dflt == [panic |-> FALSE,
                 last_page |-> UInt(DefaultLastPage, UsizeLimbs),
                 total_results |-> UInt(DefaultTotalResults, UsizeLimbs)]
        num == parse_uint(FilterDigits(doc.badge.text), UsizeLimbs)
        sum == MulAddFrom(num.val, 1, 1, PerPage - 1)
    IN  IF ~doc.badge.some \/ ~num.ok
        THEN dflt
        ELSE IF num.val # Zero(UsizeLimbs) \/ items = <<>>
        THEN IF sum.carry # 0 /\ bld = "debug"
             THEN [dflt EXCEPT !.panic = TRUE]
             ELSE [panic |-> FALSE,
                   last_page |-> DivFrom(sum.num, UsizeLimbs, PerPage, 0),
                   total_results |-> num.val]
        ELSE dflt

\* the page is put in the query string as it is, one-based
page_one_based(page, bld) == [panic |-> FALSE, val |-> UInt(page, UsizeLimbs)]

\* ctx.page - 1 in usize: page 0 panics in a build that checks arithmetic and
\* wraps to usize::MAX otherwise
page_minus_one(page, bld) ==
    IF page >= 1
    THEN [panic |-> FALSE, val |-> UInt(page - 1, UsizeLimbs)]
    ELSE [panic |-> bld = "debug", val |-> [i \in 1..UsizeLimbs |-> Base - 1]]

\* the request URL: base_url joined with torrents.php and the query string
request_url(q, bld) ==
    [path |-> "torrents.php", search |-> q.query, page |-> page_minus_one(q.page, bld).val,
     sort |-> q.sort]

StatusOK == 200

NoError == [kind |-> "none"]

Panicked(c) ==
    [status |-> "panic", err |-> NoError, items |-> <<>>, rows |-> <<>>,
     last_page |-> c.last_page, total_results |-> c.total_results]

\* an early return placed after the pagination defaults are written
FailedAfterDefaults(c, e) ==
    [status |-> "err", err |-> e, items |-> <<>>, rows |-> <<>>,
     last_page |-> UInt(DefaultLastPage, UsizeLimbs),
     total_results |-> UInt(DefaultTotalResults, UsizeLimbs)]

\* an early return of search: Err(e), nothing written to ctx
Failed(c, e) ==
    [status |-> "err", err |-> e, items |-> <<>>, rows |-> <<>>,
     last_page |-> c.last_page, total_results |-> c.total_results]

\* TorrentGalaxyHtmlSource::search(client, ctx, w): the Result it returns and
\* the values it leaves in ctx.last_page and ctx.total_results.  q is the
\* query (w and ctx.page), x what the configuration and the network answer.
search(q, x, c, bld) ==
    IF x.kind = "bad_base_url"
    THEN Failed(c, [kind |-> "url_parse"])
    ELSE IF page_minus_one(q.page, bld).panic
    THEN Panicked(c)
    ELSE IF x.kind = "conn_err"
    THEN Failed(c, [kind |-> "reqwest", what |-> "send"])
    ELSE IF x.status # StatusOK
    THEN Failed(c, [kind |-> "message", url |-> request_url(q, bld), code |-> x.status])
    ELSE IF ~x.text_ok
    THEN Failed(c, [kind |-> "reqwest", what |-> "body"])
    ELSE LET items == parse_items(x.doc)
             pg == pagination(x.doc, items, bld)
         IN  IF pg.panic
             THEN Panicked(pg)
             ELSE [status |-> "ok", err |-> NoError, items |-> items,
                   rows |-> format_table(items),
                   last_page |-> pg.last_page, total_results |-> pg.total_results]

\* filter, categorize and sort delegate to search
filter(q, x, c, bld) == search(q, x, c, bld)

categorize(q, x, c, bld) == search(q, x, c, bld)

sort(q, x, c, bld) == search(q, x, c, bld)

Ops == {"search", "filter", "categorize", "sort"}

\* the adapter operation named op
adapter(op, q, x, c, bld) ==
    CASE op = "search" -> search(q, x, c, bld)
      [] op = "filter" -> filter(q, x, c, bld)
      [] op = "categorize" -> categorize(q, x, c, bld)
      [] op = "sort" -> sort(q, x, c, bld)

(***************************************************************************)
(* What a page can hold: the inputs of the adapter.                        *)
(***************************************************************************)
\* a row whose every field is present and well formed
PlainRow ==
    [seed |-> Some(<<"1", "0">>), leech |-> Some(<<"3">>),
     views |-> Some(<<"1", ",", "2", "3", "4">>), size |-> Some(<<"5", "0", "0", " ", "M", "B">>)]

U32Max == <<"4", "2", "9", "4", "9", "6", "7", "2", "9", "5">>

U32Over == <<"4", "2", "9", "4", "9", "6", "7", "2", "9", "7">>

UsizeMax ==
    <<"1", "8", "4", "4", "6", "7", "4", "4", "0", "7",
      "3", "7", "0", "9", "5", "5", "1", "6", "1", "5">>

\* the rows a page is put together from: a plain one, one with every field
\* missing, rows whose counts have no digit or do not fit a u32, and rows
\* whose sizes carry a comma in every unit the site writes or in a form the
\* conversion does not expect
RowList ==
    <<PlainRow,
      [seed |-> Some(<<"-">>), leech |-> Some(<<"3">>), views |-> Some(<<>>),
       size |-> Some(<<"1", ",", "0", "1", "5", " ", "K", "B">>)],
      [seed |-> None, leech |-> None, views |-> None, size |-> None],
      [seed |-> Some(U32Over), leech |-> Some(<<"9">> \o U32Over), views |-> Some(U32Max),
       size |-> Some(<<"1", ",", "2", "0", "0", " ", "K", "B">>)],
      [seed |-> Some(U32Max), leech |-> Some(<<"-">>), views |-> Some(U32Over),
       size |-> Some(<<"7", ",", "0", "0", "0", " ", "B">>)],
      [seed |-> Some(<<"0", "0", "7">>), leech |-> Some(<<"0">> \o U32Max),
       views |-> Some(<<"n", "/", "a">>),
       size |-> Some(<<"3", ",", "1", "0", "0", " ", "m", "b">>)],
      [PlainRow EXCEPT !.size = Some(<<"9", ",", "9", "9", "9", " ", "G", "b">>)],
      [PlainRow EXCEPT !.size = Some(<<"1", ",", "2", "3", "4", ",", "5", "6", "7", " ", "K", "B">>)],
      [PlainRow EXCEPT !.size = Some(<<"2", ",", "5", " ", "G", "B">>)],
      [PlainRow EXCEPT !.size = Some(<<"1", ",", "0", "1", "5", " ", "T", "B">>)],
      [PlainRow EXCEPT !.size = Some(<<"1", ",", "0", "1", "5", "K", "B">>)],
      [PlainRow EXCEPT !.size = Some(<<"1", ",", "e'", " ", "M", "B">>)]>>

\* k consecutive sample rows, from the i-th on (the rows are scraped
\* independently of each other, so every sample occurs at every position)
Window(i, k) == [j \in 1..k |-> RowList[((i + j - 2) % Len(RowList)) + 1]]

\* the page-count badge: absent, "0", "120", no digit at all, usize::MAX
BadgeSamples ==
    {None, Some(<<"0">>), Some(<<"1", "2", "0", " ", "r">>), Some(<<"x">>), Some(UsizeMax)}

RowSeqs(n) == {Window(i, k) : i \in 1..Len(RowList), k \in 0..n}

\* a document: whether it holds the result list container at all, the
\* div.tgxtablerow elements in it and the span.badge of div#filterbox2
Docs(n) ==
    {[container |-> c, rows |-> r, badge |-> b] :
        c \in BOOLEAN, r \in RowSeqs(n), b \in BadgeSamples}

WellFormed(d) == d.rows # <<>> => d.container

NoDoc == [container |-> FALSE, rows |-> <<>>, badge |-> None]

\* what the configuration and the network answer to one call
Exchanges(n) ==
    {[kind |-> "bad_base_url", status |-> 0, text_ok |-> FALSE, doc |-> NoDoc],
     [kind |-> "conn_err", status |-> 0, text_ok |-> FALSE, doc |-> NoDoc]}
    \cup {[kind |-> "http", status |-> st, text_ok |-> FALSE, doc |-> NoDoc] :
            st \in {204, 404, 503}}
    \cup {[kind |-> "http", status |-> StatusOK, text_ok |-> FALSE, doc |-> NoDoc]}
    \cup {[kind |-> "http", status |-> StatusOK, text_ok |-> TRUE, doc |-> d] :
            d \in {e \in Docs(n) : WellFormed(e)}}

AllExchanges == Exchanges(MaxRows)

(***************************************************************************)
(* The sort popup (widget/sort.rs).                                        *)
(***************************************************************************)
\* Sort::iter(): the entries in the order of SORTS
Sorts == <<"Date", "Downloads", "Seeders", "Leechers", "Name", "Category">>

\* Sort::to_string
Sort_to_string(x) == x

\* TableState::selected(): Option<usize>
SomeIdx(i) == [some |-> TRUE, idx |-> i]

NoIdx == [some |-> FALSE, idx |-> 0]

\* StatefulTable::with_items: the first entry is highlighted
with_items(items) == [items |-> items, selected |-> SomeIdx(0)]

\* StatefulTable::next_wrap(amt): the highlight moves by amt and wraps around
next_wrap(t, amt) ==
    IF t.items = <<>>
    THEN t
    ELSE [t EXCEPT !.selected =
            IF t.selected.some THEN SomeIdx((t.selected.idx + amt) % Len(t.items))
            ELSE SomeIdx(0)]

\* StatefulTable::select(idx)
select(t, idx) == [t EXCEPT !.selected = SomeIdx(idx)]

\* Iterator::nth on Sort::iter()
nth(seq, i) == IF i < Len(seq) THEN [some |-> TRUE, val |-> seq[i + 1]]
               ELSE [some |-> FALSE, val |-> "Date"]

\* self.table.state.selected().unwrap_or_default()
selected_or_default(t) == IF t.selected.some THEN t.selected.idx ELSE 0

\* SortPopup::default()
SortPopup_default ==
    [table |-> with_items([i \in 1..Len(Sorts) |-> Sort_to_string(Sorts[i])]),
     selected |-> "Date"]

\* crossterm events: key events of every kind, and events that are no keys
KeyCodes == {"Esc", "s", "q", "j", "k", "G", "g", "Enter", "x", "Tab"}

KeyKinds == {"Press", "Release", "Repeat"}

PopupEvents ==
    {[type |-> "key", code |-> c, kind |-> k] : c \in KeyCodes, k \in KeyKinds}
        \cup {[type |-> t, code |-> "none", kind |-> "none"] : t \in {"resize", "mouse"}}

\* the match on code, for an event of any kind
on_key(p, m, e) ==
    IF e.code \in {"Esc", "s", "q"}
    THEN [popup |-> p, mode |-> "Normal"]
    ELSE IF e.code = "j"
    THEN [popup |-> [p EXCEPT !.table = next_wrap(@, 1)], mode |-> m]
    ELSE IF e.code = "k"
    THEN [popup |-> [p EXCEPT !.table = next_wrap(@, -1)], mode |-> m]
    ELSE IF e.code = "G"
    THEN [popup |-> [p EXCEPT !.table = select(@, Len(p.table.items) - 1)], mode |-> m]
    ELSE IF e.code = "g"
    THEN [popup |-> [p EXCEPT !.table = select(@, 0)], mode |-> m]
    ELSE IF e.code = "Enter"
    THEN LET i == nth(Sorts, selected_or_default(p.table))
         IN  IF i.some
             THEN [popup |-> [p EXCEPT !.selected = i.val], mode |-> "Normal"]
             ELSE [popup |-> p, mode |-> m]
    ELSE [popup |-> p, mode |-> m]

\* the handler without the test of KeyEventKind::Press
handle_event_any_kind(p, m, e) ==
    IF e.type = "key" THEN on_key(p, m, e) ELSE [popup |-> p, mode |-> m]

\* SortPopup::handle_event(self, app, e): the popup and app.mode it leaves
handle_event(p, m, e) ==
    IF e.type = "key" /\ e.kind = "Press"
    THEN on_key(p, m, e)
    ELSE [popup |-> p, mode |-> m]

(***************************************************************************)
(* State.                                                                  *)
(***************************************************************************)
svars == <<ncalls, call>>

evars ==
    <<widgets, running, mode, current_generation, results, error, tasks, res_chan, evt_chan,
      reader, read_log, send_log, taken>>

pvars == <<sort_popup, app_mode, handled>>

vars == <<build, ctx, svars, evars, pvars>>

\* Context as the application starts: first page, nothing loaded yet
InitCtx == [page |-> 1, last_page |-> Zero(UsizeLimbs), total_results |-> Zero(UsizeLimbs)]

\* the pages a query holds: positive, some of them past one limb
Pages == (1..MaxPage) \cup {Base, Base + 1}

\* the query the widgets and the context hold
QueryOf(c) == [query |-> "abc", page |-> c.page, sort |-> widgets.sort]

NoResults == [search |-> [query |-> "", page |-> 0, sort |-> "Date"], items |-> <<>>, table |-> <<>>]

\* the engine as the application starts: nothing dispatched, the reader about
\* to read
InitEngine ==
    /\ widgets = [sort |-> "Date"]
    /\ running = TRUE
    /\ mode = "Idle"
    /\ current_generation = 0
    /\ results = NoResults
    /\ error = NoError
    /\ tasks = <<>>
    /\ res_chan = <<>>
    /\ evt_chan = <<>>
    /\ reader = [pc |-> "read", evt |-> "none", reads |-> 0]
    /\ read_log = <<>>
    /\ send_log = <<>>
    /\ taken = 0

NoHandled == [evt |-> [type |-> "none", code |-> "none", kind |-> "none"],
              popup |-> SortPopup_default, mode |-> "Normal"]

\* nothing handled yet, the popup as constructed and not shown
InitPopup ==
    /\ sort_popup = SortPopup_default
    /\ app_mode = "Normal"
    /\ handled = NoHandled

NoCall == [op |-> "none", x |-> [kind |-> "none"], before |-> InitCtx, out |-> Panicked(InitCtx)]

\* what a call of the adapter writes through its &mut Context
CtxAfter(c, out) == [c EXCEPT !.last_page = out.last_page, !.total_results = out.total_results]

(***************************************************************************)
(* SpecSearch: the adapter called directly, its inputs drawn from the      *)
(* sample pages.                                                           *)
(***************************************************************************)
InitSearch ==
    /\ build \in Builds
    /\ ctx \in {[InitCtx EXCEPT !.page = p] : p \in Pages}
    /\ ncalls = 0
    /\ call = NoCall
    /\ InitEngine
    /\ InitPopup

\* one call of search, filter, categorize or sort
AdapterCall ==
    /\ ncalls < MaxCalls
    /\ call.op = "none"
    /\ \E op \in Ops, x \in AllExchanges :
        call' = [op |-> op, x |-> x, before |-> ctx,
                 out |-> adapter(op, QueryOf(ctx), x, ctx, build)]
    /\ ctx' = CtxAfter(ctx, call'.out)
    /\ ncalls' = ncalls + 1
    /\ UNCHANGED <<pvars, build, evars>>

\* the caller takes the Result; a panic has ended the process
AdapterReturn ==
    /\ call.op # "none"
    /\ call.out.status # "panic"
    /\ call' = NoCall
    /\ UNCHANGED <<pvars, build, ctx, ncalls, evars>>

NextSearch == AdapterCall \/ AdapterReturn

SpecSearch == InitSearch /\ [][NextSearch]_vars

(***************************************************************************)
(* The engine: the fetch tasks (load_results), the input reader            *)
(* (read_event_loop) and the Main Loop that receives from both channels.   *)
(***************************************************************************)
\* the adapter operation a LoadType stands for
LoadTypeOp(load_type) ==
    CASE load_type = "Searching" -> "search"
      [] load_type = "Sorting" -> "sort"
      [] load_type = "Filtering" -> "filter"
      [] load_type = "Categorizing" -> "categorize"

\* src.load(load_type, client, search, config, date_format)
load(load_type, q, x, c, bld) == adapter(LoadTypeOp(load_type), q, x, c, bld)

\* Results::new(search, response, table)
Results_new(q, res, table) == [search |-> q, items |-> res.items, table |-> table]

OkMsg(r) == [ok |-> TRUE, results |-> r, err |-> NoError]

ErrMsg(e) == [ok |-> FALSE, results |-> NoResults, err |-> e]

\* the table formatted before the Result is looked at, an error turned into
\* an empty success
map_results_eager(q, res) ==
    [msg |-> OkMsg(Results_new(q, res, format_table(res.items))), fmt_runs |-> 1]

\* res.map(|res| Results::new(search.clone(), res.clone(), src.format_table(..))):
\* the message to send and how often the table formatter ran
map_results(q, res) ==
    IF res.status = "ok"
    THEN [msg |-> OkMsg(Results_new(q, res, format_table(res.items))), fmt_runs |-> 1]
    ELSE [msg |-> ErrMsg(res.err), fmt_runs |-> 0]

\* mpsc::Sender::send(item).await: Err at once when the receiver is gone, the
\* item queued when there is room, and otherwise not yet done
send(chan, open, item) ==
    IF ~open
    THEN [done |-> TRUE, ok |-> FALSE, chan |-> chan]
    ELSE IF Len(chan) < ChanCap
    THEN [done |-> TRUE, ok |-> TRUE, chan |-> Append(chan, item)]
    ELSE [done |-> FALSE, ok |-> FALSE, chan |-> chan]

\* what the network answers to a fetch of the engine
EngineExchanges ==
    {[kind |-> "conn_err", status |-> 0, text_ok |-> FALSE, doc |-> NoDoc],
     [kind |-> "http", status |-> 404, text_ok |-> FALSE, doc |-> NoDoc],
     [kind |-> "http", status |-> StatusOK, text_ok |-> TRUE,
      doc |-> [container |-> TRUE, rows |-> <<PlainRow>>,
               badge |-> Some(<<"1", "2", "0", " ", "r">>)]]}

NoMsg == ErrMsg(NoError)

\* a task as tokio::spawn(load_results(..)) creates it
NewTask(load_type, q) ==
    [pc |-> "spawned", load_type |-> load_type, search |-> q, res |-> Panicked(InitCtx),
     msg |-> NoMsg, fmt_runs |-> 0, sends |-> 0, enq |-> 0, recv |-> 0]

\* load_results up to its send: the adapter call returns (or panics) and the
\* Result is mapped; the adapter's writes through its &mut Context land in ctx
TaskLoad(t) ==
    /\ tasks[t].pc = "spawned"
    /\ \E x \in EngineExchanges :
        LET res == load(tasks[t].load_type, tasks[t].search, x, ctx, build)
            m == map_results(tasks[t].search, res)
        IN  /\ tasks' = [tasks EXCEPT ![t] =
                    [@ EXCEPT !.pc = IF res.status = "panic" THEN "panicked" ELSE "formatted",
                              !.res = res, !.msg = m.msg, !.fmt_runs = m.fmt_runs]]
            /\ ctx' = CtxAfter(ctx, res)
    /\ UNCHANGED <<pvars, build, svars, widgets, running, mode, current_generation, results, error,
                   res_chan, evt_chan, reader, read_log, send_log, taken>>

\* let _ = tx_res.send(fmt).await
TaskSend(t) ==
    /\ tasks[t].pc = "formatted"
    /\ LET s == send(res_chan, running, [from |-> t, msg |-> tasks[t].msg])
       IN  /\ s.done
           /\ res_chan' = s.chan
           /\ tasks' = [tasks EXCEPT ![t] =
                    [@ EXCEPT !.pc = "done", !.sends = @ + 1,
                              !.enq = IF s.ok THEN @ + 1 ELSE @]]
    /\ UNCHANGED <<pvars, build, ctx, svars, widgets, running, mode, current_generation, results,
                   error, evt_chan, reader, read_log, send_log, taken>>

\* the terminal events the reader can read
Events == {"page", "sort", "nav", "quit"}

ReadOutcomes == {[ok |-> TRUE, evt |-> e] : e \in Events} \cup {[ok |-> FALSE, evt |-> "none"]}

\* a reader that gives up at the first read error
on_read_stop_on_error(rd, r) ==
    IF r.ok
    THEN [pc |-> "send", evt |-> r.evt, reads |-> rd.reads + 1]
    ELSE [pc |-> "stopped", evt |-> "none", reads |-> rd.reads + 1]

\* if let Ok(evt) = event::read() { .. }: an Ok goes on to the send, an Err to
\* the next iteration
on_read(rd, r) ==
    IF r.ok
    THEN [pc |-> "send", evt |-> r.evt, reads |-> rd.reads + 1]
    ELSE [pc |-> "read", evt |-> "none", reads |-> rd.reads + 1]

\* let _ = tx_evt.send(evt).await: whatever the send returned, the loop goes on
after_send(rd, ok) == [pc |-> "read", evt |-> "none", reads |-> rd.reads]

\* read_event_loop: event::read()
ReaderRead ==
    /\ reader.pc = "read"
    /\ reader.reads < MaxReads
    /\ \E r \in ReadOutcomes :
        /\ reader' = on_read(reader, r)
        /\ read_log' = IF r.ok THEN Append(read_log, r.evt) ELSE read_log
    /\ UNCHANGED <<pvars, build, ctx, svars, widgets, running, mode, current_generation, results,
                   error, tasks, res_chan, evt_chan, send_log, taken>>

\* read_event_loop: tx_evt.send(evt).await
ReaderSend ==
    /\ reader.pc = "send"
    /\ LET s == send(evt_chan, running, reader.evt)
       IN  /\ s.done
           /\ evt_chan' = s.chan
           /\ reader' = after_send(reader, s.ok)
           /\ send_log' = Append(send_log, [evt |-> reader.evt, ok |-> s.ok])
    /\ UNCHANGED <<pvars, build, ctx, svars, widgets, running, mode, current_generation, results,
                   error, tasks, res_chan, read_log, taken>>

OtherSort(x) == IF x = "Date" THEN "Seeders" ELSE "Date"

\* the Main Loop dispatches: the generation is incremented and a fetch task is
\* spawned on a snapshot of the query
Dispatch(load_type, c, wd) ==
    /\ current_generation' = current_generation + 1
    /\ tasks' = Append(tasks, NewTask(load_type, [query |-> "abc", page |-> c.page, sort |-> wd.sort]))
    /\ mode' = "Loading"
    /\ ctx' = c
    /\ widgets' = wd

\* the Main Loop receives an input event
MainEvent ==
    /\ running
    /\ evt_chan # <<>>
    /\ taken' = taken + 1
    /\ LET e == Head(evt_chan)
       IN  CASE e = "page" ->
                    /\ Dispatch("Searching", [ctx EXCEPT !.page = @ + 1], widgets)
                    /\ evt_chan' = Tail(evt_chan)
                    /\ UNCHANGED <<running, res_chan>>
             [] e = "sort" ->
                    /\ Dispatch("Sorting", ctx, [widgets EXCEPT !.sort = OtherSort(@)])
                    /\ evt_chan' = Tail(evt_chan)
                    /\ UNCHANGED <<running, res_chan>>
             [] e = "nav" ->
                    /\ evt_chan' = Tail(evt_chan)
                    /\ UNCHANGED <<running, res_chan, current_generation, tasks, mode, ctx, widgets>>
             [] e = "quit" ->
                    /\ running' = FALSE
                    /\ evt_chan' = <<>>
                    /\ res_chan' = <<>>
                    /\ UNCHANGED <<current_generation, tasks, mode, ctx, widgets>>
    /\ UNCHANGED <<pvars, build, svars, results, error, reader, read_log, send_log>>

\* the generation the Main Loop takes a received message to answer: the item
\* type of the result channel, Result<Results, Box<dyn Error>>, has no
\* generation in it, so a message can only be taken for the fetch outstanding
Generation(m) == current_generation

\* the Main Loop receives a fetch outcome: one whose generation matches the
\* current one is applied (Ok: the table is rebuilt, Idle; Err: the error is
\* recorded and the last good table kept, Error), any other is dropped
MainResult ==
    /\ running
    /\ res_chan # <<>>
    /\ LET m == Head(res_chan).msg
           t == Head(res_chan).from
       IN  /\ tasks' = [tasks EXCEPT ![t] = [@ EXCEPT !.recv = @ + 1]]
           /\ IF Generation(m) = current_generation
              THEN IF m.ok
                   THEN /\ results' = m.results
                        /\ mode' = "Idle"
                        /\ error' = error
                   ELSE /\ error' = m.err
                        /\ mode' = "Error"
                        /\ results' = results
              ELSE UNCHANGED <<results, mode, error>>
    /\ res_chan' = Tail(res_chan)
    /\ UNCHANGED <<pvars, build, ctx, svars, widgets, running, current_generation, evt_chan, reader,
                   read_log, send_log, taken>>

Init ==
    /\ build \in Builds
    /\ ctx = InitCtx
    /\ ncalls = 0
    /\ call = NoCall
    /\ InitEngine
    /\ InitPopup

Next ==
    \/ ReaderRead
    \/ ReaderSend
    \/ MainEvent
    \/ MainResult
    \/ \E t \in 1..Len(tasks) : TaskLoad(t)
    \/ \E t \in 1..Len(tasks) : TaskSend(t)

Spec == Init /\ [][Next]_vars

(***************************************************************************)
(* SpecSort: the sort popup is shown and handles the events it is given.   *)
(***************************************************************************)
InitSort ==
    /\ build \in Builds
    /\ ctx = InitCtx
    /\ ncalls = 0
    /\ call = NoCall
    /\ InitEngine
    /\ InitPopup

\* the Main Loop shows the sort popup
PopupOpen ==
    /\ app_mode = "Normal"
    /\ app_mode' = "Sort"
    /\ handled' = NoHandled
    /\ UNCHANGED <<build, ctx, svars, evars, sort_popup>>

\* the popup is shown and is handed one event
PopupEvent ==
    /\ app_mode = "Sort"
    /\ \E e \in PopupEvents :
        LET r == handle_event(sort_popup, app_mode, e)
        IN  /\ sort_popup' = r.popup
            /\ app_mode' = r.mode
            /\ handled' = [evt |-> e, popup |-> sort_popup, mode |-> app_mode]
    /\ UNCHANGED <<build, ctx, svars, evars>>

NextSort == PopupOpen \/ PopupEvent

SpecSort == InitSort /\ [][NextSort]_vars

(***************************************************************************)
(* Properties of the engine (Spec).                                        *)
(***************************************************************************)
\* every dispatched fetch has delivered its outcome and the Main Loop has
\* received them all
Settled ==
    /\ running
    /\ res_chan = <<>>
    /\ \A t \in 1..Len(tasks) : tasks[t].pc = "done"

\* C1: once all outcomes of the N >= 1 dispatched queries have been received,
\* the table shown is the one derived from the result set of the last
\* dispatched query, whatever the order the fetches completed in.
C1_LastDispatchedShown ==
    (Settled /\ Len(tasks) >= 1 /\ tasks[Len(tasks)].msg.ok)
        => results = tasks[Len(tasks)].msg.results

\* C2: an outcome whose fetch was dispatched with a generation that is not the
\* current one is never applied: receiving it changes neither the table shown
\* nor the Main Loop's state.
C2_StaleNeverApplied ==
    [][(/\ running /\ running'
        /\ res_chan # <<>>
        /\ res_chan' = Tail(res_chan)
        /\ <<results, mode, error>>' # <<results, mode, error>>)
            => Head(res_chan).from = current_generation]_vars

\* the messages of task t waiting in the result channel
InChan(t) == Len(SelectSeq(res_chan, LAMBDA e : e.from = t))

\* C3: a load_results whose adapter call returned sends exactly one message:
\* Ok(results), with the table formatted from the returned items, when the
\* adapter succeeded, and Err(e) with the adapter's error when it failed; the
\* formatter does not run on the error path, the task does not panic on an
\* adapter error, and a send that fails because the receiver is gone is
\* ignored.
C3_OneMessagePerFetch ==
    \A t \in 1..Len(tasks) :
        LET k == tasks[t]
        IN  /\ k.pc = "panicked" => k.res.status = "panic"
            /\ k.pc \in {"formatted", "done"} =>
                /\ k.res.status \in {"ok", "err"}
                /\ k.res.status = "ok" =>
                    /\ k.msg = OkMsg(Results_new(k.search, k.res, format_table(k.res.items)))
                    /\ k.fmt_runs = 1
                /\ k.res.status = "err" =>
                    /\ k.msg = ErrMsg(k.res.err)
                    /\ k.fmt_runs = 0
            /\ k.pc = "done" => k.sends = 1 /\ k.enq <= 1
            /\ k.pc # "done" => k.sends = 0 /\ k.enq = 0
            /\ running => InChan(t) + k.recv = k.enq
            /\ \A i \in 1..Len(res_chan) : res_chan[i].from = t => res_chan[i].msg = k.msg

\* two fetches have finished, one with Ok and one with Err, each with one
\* message that reached the Main Loop
C3_Witness ==
    \E t, u \in 1..Len(tasks) :
        /\ tasks[t].pc = "done" /\ tasks[t].msg.ok /\ tasks[t].recv = 1
        /\ tasks[u].pc = "done" /\ ~tasks[u].msg.ok /\ tasks[u].recv = 1
        /\ tasks[u].msg.err = [kind |-> "reqwest", what |-> "send"]

\* C4: the reader never terminates; the events it read successfully are
\* handed to the channel once each and in the order read; a read error sends
\* nothing; after a failed send the loop goes on reading.
C4_ReaderForwardsInOrder ==
    /\ reader.pc \in {"read", "send"}
    /\ Len(read_log) <= reader.reads
    /\ Len(send_log) + (IF reader.pc = "send" THEN 1 ELSE 0) = Len(read_log)
    /\ \A i \in 1..Len(send_log) : send_log[i].evt = read_log[i]
    /\ reader.pc = "send" => reader.evt = read_log[Len(read_log)]
    /\ running =>
        /\ \A i \in 1..Len(send_log) : send_log[i].ok
        /\ evt_chan = [i \in 1..(Len(send_log) - taken) |-> send_log[taken + i].evt]
    /\ ~running => evt_chan = <<>>

\* the reader has sent a first event, failed to send a second one because the
\* Main Loop had gone, and is reading again
C4_Witness ==
    /\ Len(send_log) = 2
    /\ send_log[1].ok /\ ~send_log[2].ok
    /\ read_log = <<send_log[1].evt, send_log[2].evt>>
    /\ reader.pc = "read"

(***************************************************************************)
(* Properties of the adapter (SpecSearch).                                 *)
(***************************************************************************)
\* a call has been made and its outcome is at hand
Called == call.op # "none"

\* C5: a call of the adapter (search, filter, categorize or sort) changes
\* neither the current generation, nor the page and pagination counters
\* (last_page, total_results), nor the last accepted table.
C5_FetchWritesNoMainLoopState ==
    [][(call.op = "none" /\ call'.op # "none")
            => UNCHANGED <<current_generation, ctx, results>>]_vars

\* the response was 200 OK and its body was read, so a document was parsed
DocArrived == Called /\ call.x.kind = "http" /\ call.x.status = StatusOK /\ call.x.text_ok

Succeeded == Called /\ call.out.status = "ok"

\* C6: when the page-count element is absent and the item list is not empty,
\* last_page = 50 and total_results = 2500; whenever the item list is empty,
\* last_page = 0 and total_results = 0.
C6_PaginationReported ==
    Succeeded =>
        /\ (~call.x.doc.badge.some /\ call.out.items # <<>>) =>
                /\ call.out.last_page = UInt(50, UsizeLimbs)
                /\ call.out.total_results = UInt(2500, UsizeLimbs)
        /\ call.out.items = <<>> =>
                /\ call.out.last_page = Zero(UsizeLimbs)
                /\ call.out.total_results = Zero(UsizeLimbs)

AllDigits(s) == \A i \in 1..Len(s) : is_ascii_digit(s[i])

\* t is made of groups of three digits separated by commas
RECURSIVE Groups(_)
Groups(t) ==
    /\ Len(t) >= 3
    /\ AllDigits(SubSeq(t, 1, 3))
    /\ \/ Len(t) = 3
       \/ Len(t) > 3 /\ t[4] = "," /\ Groups(SubSeq(t, 5, Len(t)))

\* 0 for B, 1 for KB, 2 for MB, 3 for GB in any case, -1 for anything else
UnitRank(u) ==
    IF Len(u) = 1 /\ u[1] \in {"B", "b"} THEN 0
    ELSE IF Len(u) = 2 /\ u[2] \in {"B", "b"}
    THEN CASE u[1] \in {"K", "k"} -> 1
           [] u[1] \in {"M", "m"} -> 2
           [] u[1] \in {"G", "g"} -> 3
           [] OTHER -> 0 - 1
    ELSE 0 - 1

LargerUnits == <<<<"k", "B">>, <<"M", "B">>, <<"G", "B">>, <<"T", "B">>>>

\* s is a comma-grouped number, a space and one of the units B, KB, MB, GB:
\* c is the position of its first comma and p of its space
GroupedAt(s, c, p) ==
    /\ c \in 2..4 /\ p \in (c + 4)..(Len(s) - 1)
    /\ AllDigits(SubSeq(s, 1, c - 1))
    /\ s[c] = "," /\ s[p] = " "
    /\ Groups(SubSeq(s, c + 1, p - 1))
    /\ UnitRank(SubSeq(s, p + 1, Len(s))) >= 0

\* the size the claim expects for such a string
Rewritten(s, c, p) ==
    SubSeq(s, 1, c - 1) \o <<".", s[c + 1], s[c + 2], " ">>
        \o LargerUnits[UnitRank(SubSeq(s, p + 1, Len(s))) + 1]

HasComma(s) == \E i \in 1..Len(s) : s[i] = ","

\* C7: every scraped size that is a comma-grouped number, a space and a unit
\* (B, KB, MB, GB in any case) becomes the number before the comma, a point, the
\* two digits after the comma, a space and the next-larger unit; a scraped size
\* without a comma is left as it is.
C7_SizeNormalized ==
    Succeeded =>
        \A i \in 1..Len(call.x.doc.rows) :
            LET f == call.x.doc.rows[i].size
                got == call.out.items[i].size
            IN  f.some =>
                    /\ \A c \in 1..Len(f.text), p \in 1..Len(f.text) :
                            GroupedAt(f.text, c, p) => got = Rewritten(f.text, c, p)
                    /\ ~HasComma(f.text) => got = f.text

\* a page holding "500 MB" and "1,015 KB" has been scraped: the first size is
\* kept and the second has become "1.01 MB"
C7_Witness ==
    /\ Succeeded
    /\ \E i, j \in 1..Len(call.out.items) :
        /\ call.x.doc.rows[i].size = Some(<<"1", ",", "0", "1", "5", " ", "K", "B">>)
        /\ call.out.items[i].size = <<"1", ".", "0", "1", " ", "M", "B">>
        /\ call.x.doc.rows[j].size = Some(<<"5", "0", "0", " ", "M", "B">>)
        /\ call.out.items[j].size = <<"5", "0", "0", " ", "M", "B">>

\* the decimal number written by the digits a, without its leading zeros
RECURSIVE Stripped(_)
Stripped(a) == IF Len(a) > 1 /\ a[1] = "0" THEN Stripped(Tail(a)) ELSE a

\* a > b for digit strings of the same length
RECURSIVE DigitsGreater(_, _)
DigitsGreater(a, b) ==
    /\ a # <<>>
    /\ \/ DigitVal(a[1]) > DigitVal(b[1])
       \/ a[1] = b[1] /\ DigitsGreater(Tail(a), Tail(b))

\* the digits of a field do not fit an unsigned 32-bit integer
ExceedsU32(d) ==
    \/ Len(Stripped(d)) > Len(U32Max)
    \/ Len(Stripped(d)) = Len(U32Max) /\ DigitsGreater(Stripped(d), U32Max)

\* a count field that is missing, has no ASCII digit or does not fit a u32
Unusable(f) ==
    \/ ~f.some
    \/ FilterDigits(f.text) = <<>>
    \/ ExceedsU32(FilterDigits(f.text))

\* C8: a seeder, leecher or view count field that is missing, holds no ASCII
\* digit or does not fit an unsigned 32-bit integer yields 0; the item is
\* still produced and the call does not fail because of it.
C8_CountDefaultsToZero ==
    DocArrived =>
        /\ call.out.status # "err"
        /\ call.out.status = "panic" => call.x.doc.badge.some
        /\ call.out.status = "ok" =>
            /\ Len(call.out.items) = Len(call.x.doc.rows)
            /\ \A i \in 1..Len(call.x.doc.rows) :
                LET e == call.x.doc.rows[i]
                    it == call.out.items[i]
                IN  /\ it.id = i - 1
                    /\ Unusable(e.seed) => it.seeders = Zero(U32Limbs)
                    /\ Unusable(e.leech) => it.leechers = Zero(U32Limbs)
                    /\ Unusable(e.views) => it.downloads = Zero(U32Limbs)

\* a page of two rows: one with every count missing, one whose seeders and
\* leechers do not fit a u32 while its views are u32::MAX
C8_Witness ==
    /\ Succeeded
    /\ Len(call.out.items) = 2
    /\ ~call.x.doc.rows[1].seed.some
    /\ call.out.items[1].seeders = Zero(U32Limbs)
    /\ call.x.doc.rows[2].seed = Some(U32Over)
    /\ call.out.items[2].seeders = Zero(U32Limbs)
    /\ call.out.items[2].leechers = Zero(U32Limbs)
    /\ call.out.items[2].downloads = [i \in 1..U32Limbs |-> Base - 1]

\* a status that is not 2xx
NonSuccess(st) == st < 200 \/ st > 299

\* the response has a non-success status, or the connection failed
TransportFailure ==
    /\ Called
    /\ \/ call.x.kind = "conn_err"
       \/ call.x.kind = "http" /\ NonSuccess(call.x.status)

\* no table is returned and ctx.last_page and ctx.total_results are as before
NothingReturned ==
    /\ call.out.status = "err"
    /\ call.out.items = <<>> /\ call.out.rows = <<>>
    /\ ctx.last_page = call.before.last_page
    /\ ctx.total_results = call.before.total_results

\* the error names the request URL and the status code
CarriesRequestContext ==
    /\ call.out.err.kind = "message"
    /\ call.out.err.url = request_url(QueryOf(call.before), build)
    /\ call.out.err.code = call.x.status

\* the number a usize holds, for the values below Base * Base
LimbValue(n) == n[1] + Base * n[2]

SmallUsize(n) == \A i \in 3..UsizeLimbs : n[i] = 0

\* the request went out and was answered with a status other than 200: the
\* error shows the URL that was requested
UrlShown == call.x.kind = "http" /\ call.x.status # StatusOK

\* C11: for every page p >= 1 of the query, building the request does not
\* underflow and the query string carries the non-negative number p - 1.
C11_PageZeroBased ==
    (Called /\ call.before.page >= 1) =>
        /\ ~page_minus_one(call.before.page, build).panic
        /\ UrlShown =>
            /\ call.out.status = "err"
            /\ call.out.err.kind = "message"
            /\ SmallUsize(call.out.err.url.page)
            /\ LimbValue(call.out.err.url.page) >= 0
            /\ LimbValue(call.out.err.url.page) + 1 = call.before.page

\* page 65537 was requested: the URL carried 65536
C11_Witness ==
    /\ Called /\ UrlShown
    /\ call.before.page = Base + 1
    /\ call.out.err.url.page = <<0, 1, 0, 0>>

\* C9 as claimed: on a non-success status or a failed connection search,
\* filter, categorize and sort return an error carrying the request URL and
\* the status code, return no table and leave last_page and total_results at
\* their previous values.
C9_TransportErrorCarriesContext ==
    TransportFailure => NothingReturned /\ CarriesRequestContext

\* C9 as amended: on a non-success status the error carries the request URL
\* and the status code; on a failed connection the error is the HTTP client's
\* own, with no status code; in both cases no table is returned and last_page
\* and total_results keep their previous values.
C9_TransportErrorAmended ==
    TransportFailure =>
        /\ NothingReturned
        /\ call.x.kind = "http" => CarriesRequestContext
        /\ call.x.kind = "conn_err" => call.out.err = [kind |-> "reqwest", what |-> "send"]

\* a 503 answers a call made after an earlier call had set 3 pages of 120
C9_Witness ==
    /\ TransportFailure
    /\ call.x.kind = "http" /\ call.x.status = 503
    /\ call.op = "sort"
    /\ call.before.last_page = UInt(3, UsizeLimbs)
    /\ call.before.total_results = UInt(120, UsizeLimbs)
    /\ call.out.status = "err"

\* C10: the fetch fails with a parse error exactly when the document holds no
\* result list container at all.
C10_NoContainerIsParseError ==
    Called =>
        ((DocArrived /\ ~call.x.doc.container)
            <=> (call.out.status = "err" /\ call.out.err.kind = "parse"))

(***************************************************************************)
(* Properties of the sort popup (SpecSort).                                *)
(***************************************************************************)
\* an event has been handled since the popup was shown
Handled == handled # NoHandled

IsPress(e) == e.type = "key" /\ e.kind = "Press"

PressOf(codes) == IsPress(handled.evt) /\ handled.evt.code \in codes

\* the index highlighted when the event arrived, and the entry there
HighlightBefore == handled.popup.table.selected.idx

EntryBefore == Sorts[HighlightBefore + 1]

\* the step in which the popup handles Enter with an entry highlighted that
\* is not the selected sort
ConfirmsNewSort ==
    /\ app_mode = "Sort"
    /\ handled' # handled
    /\ IsPress(handled'.evt) /\ handled'.evt.code = "Enter"
    /\ sort_popup.table.selected.some
    /\ Sorts[sort_popup.table.selected.idx + 1] # sort_popup.selected

\* C12: confirming a new sort with Enter sets the selected sort to the
\* highlighted entry and dispatches a new fetch whose query holds that sort:
\* the generation is incremented and the state is Loading.
C12_ConfirmDispatchesFetch ==
    [][ConfirmsNewSort =>
        /\ sort_popup'.selected = Sorts[sort_popup.table.selected.idx + 1]
        /\ app_mode' = "Loading"
        /\ current_generation' = current_generation + 1
        /\ Len(tasks') = Len(tasks) + 1
        /\ tasks'[Len(tasks')].search.sort = sort_popup'.selected]_vars

HighlightInRange ==
    /\ sort_popup.table.selected.some
    /\ sort_popup.table.selected.idx \in 0..5

\* C13: the selected sort changes only on a press of Enter, and then to the
\* entry at the highlighted index; Esc, 's' and 'q' change only the mode, to
\* Normal; 'j', 'k', 'g' and 'G' change only the highlight, which stays an
\* index in 0..5; every other key and every event that is no key press
\* changes nothing.
C13_PopupFrame ==
    /\ HighlightInRange
    /\ Handled =>
        /\ sort_popup.table.items = handled.popup.table.items
        /\ sort_popup.selected # handled.popup.selected => PressOf({"Enter"})
        /\ PressOf({"Enter"}) => sort_popup.selected = EntryBefore
        /\ PressOf({"Esc", "s", "q"}) =>
                app_mode = "Normal" /\ sort_popup = handled.popup
        /\ PressOf({"j", "k", "g", "G"}) =>
                /\ app_mode = handled.mode
                /\ sort_popup.selected = handled.popup.selected
        /\ ~PressOf({"Esc", "s", "q", "j", "k", "g", "G", "Enter"}) =>
                app_mode = handled.mode /\ sort_popup = handled.popup

\* Enter was pressed on the fourth entry while Date was selected, after the
\* highlight had been moved there
C13_Witness ==
    /\ PressOf({"Enter"})
    /\ HighlightBefore = 3
    /\ handled.popup.selected = "Date"
    /\ sort_popup.selected = "Leechers"
    /\ app_mode = "Normal"

====
